---- MODULE Spec2Model ----
(***************************************************************************)
(* Model of two programs of the repository:                                *)
(*   - Translator_SX_leaching (translator_SX_leaching.py): the constraint  *)
(*     set made by build() and the stepwise body of initialize_build();    *)
(*   - the diafiltration driver main() (solve_diafiltration.py).           *)
(* External collaborators (property packages, the nonlinear solver, the    *)
(* DiafiltrationModel class) are nondeterministic over their outcomes.     *)
(***************************************************************************)
EXTENDS Integers, Sequences, FiniteSets, TLC

VARIABLES
    \* ---- Translator_SX_leaching ----
    tpc,          \* position in build / initialize_build
    name,         \* self.name
    time,         \* self.flowsheet().time
    constraints,  \* the active equality constraints of the block
    inVal,        \* value of every properties_in state variable
    outVal,       \* value of every properties_out state variable
    fixedIn,      \* the properties_in variables that are fixed
    fixedOut,     \* the properties_out variables that are fixed
    flags,        \* return value of properties_in.initialize(hold_state=True)
    res,          \* termination condition of the local solve
    exc,          \* exception that left initialize_build
    solveDofs,    \* degrees of freedom seen at each opt.solve of this call
    derived,      \* <<(upstream, downstream)>> of the last earlier call that solved to optimality
    \* ---- diafiltration driver ----
    pc,           \* index of the next statement of main in MainOrder
    argv,         \* sys.argv
    mix_style, num_s, num_t,
    m,            \* the assembled model: existence, free variables, V of precipitators
    result,       \* return value of solver.solve(m)
    raised,       \* exception that left main
    trace         \* statements of main executed so far, in order

tvars == <<tpc, name, time, constraints, inVal, outVal, fixedIn, fixedOut,
           flags, res, exc, solveDofs, derived>>
dvars == <<pc, argv, mix_style, num_s, num_t, m, result, raised, trace>>
vars == <<tvars, dvars>>

(***************************************************************************)
(* Bounds of the model.                                                    *)
(***************************************************************************)
MaxTime == 1        \* the longest time set is 0..MaxTime
NumUpstream == 1    \* number of sample upstream states (state_args_in)
NumGuess == 1       \* number of sample downstream guesses (state_args_out)

(***************************************************************************)
(* Quantities.  A concentration or flow value m * 10^e is [m, e].          *)
(***************************************************************************)
Val(mant, ex) == [m |-> mant, e |-> ex]
NoValue == Val(0, 0)

\* 1e6 * pyunits.mg / pyunits.L
WaterRef == Val(1, 6)
\* 1e-10 * pyunits.mg / pyunits.L
AcidRef == Val(1, -10)

\* faulty variant: the acid H is also listed as a metal
metals_m == {"Al", "Ca", "Fe", "Sc", "Y", "La", "Ce", "Pr", "Nd", "Sm", "Gd", "Dy", "H"}
metals == {"Al", "Ca", "Fe", "Sc", "Y", "La", "Ce", "Pr", "Nd", "Sm", "Gd", "Dy"}

acids == {"H", "HSO4", "SO4"}

\* components of properties_in and of properties_out that build() refers to
\* (upstream also carries its own water concentration)
InComps == metals \cup {"H2O"}
OutComps == metals \cup {"H2O"} \cup acids

FlowVar(t) == <<t, "flow_vol", "-">>
ConcVar(t, i) == <<t, "conc_mass_comp", i>>
NoVar == <<0, "-", "-">>

InVars(T) == {FlowVar(t) : t \in T} \cup {ConcVar(t, i) : t \in T, i \in InComps}
OutVars(T) == {FlowVar(t) : t \in T} \cup {ConcVar(t, i) : t \in T, i \in OutComps}

\* position of a component, used to give sample states distinct values
CompPos(i) ==
    CASE i = "Al" -> 1 [] i = "Ca" -> 2 [] i = "Fe" -> 3 [] i = "Sc" -> 4
      [] i = "Y" -> 5 [] i = "La" -> 6 [] i = "Ce" -> 7 [] i = "Pr" -> 8
      [] i = "Nd" -> 9 [] i = "Sm" -> 10 [] i = "Gd" -> 11 [] i = "Dy" -> 12
      [] OTHER -> 0

(***************************************************************************)
(* build(): the four constraint families.                                  *)
(***************************************************************************)
Constraint(rule, t, i, lhs, kind, rv, rc) ==
    [rule |-> rule, t |-> t, idx |-> i, lhs |-> lhs,
     rhsKind |-> kind, rhsVar |-> rv, rhsVal |-> rc]

eq_flow_vol_rule(t) ==
    Constraint("eq_flow_vol_rule", t, "-", FlowVar(t), "in", FlowVar(t), NoValue)

eq_conc_mass_metals(t, i) ==
    Constraint("eq_conc_mass_metals", t, i, ConcVar(t, i), "in", ConcVar(t, i), NoValue)

\* faulty variant: water passed through from upstream instead of set to the reference
eq_conc_mass_water_m(t) ==
    Constraint("eq_conc_mass_water", t, "-", ConcVar(t, "H2O"), "in", ConcVar(t, "H2O"), NoValue)
eq_conc_mass_water(t) ==
    Constraint("eq_conc_mass_water", t, "-", ConcVar(t, "H2O"), "const", NoVar, WaterRef)

eq_conc_mass_acids(t, i) ==
    Constraint("eq_conc_mass_acids", t, i, ConcVar(t, i), "const", NoVar, AcidRef)

\* faulty variant: the water constraint is left out
BuiltConstraints_m(T) ==
    {eq_flow_vol_rule(t) : t \in T}
    \cup {eq_conc_mass_metals(t, i) : t \in T, i \in metals}
    \cup {eq_conc_mass_acids(t, i) : t \in T, i \in acids}
BuiltConstraints(T) ==
    {eq_flow_vol_rule(t) : t \in T}
    \cup {eq_conc_mass_metals(t, i) : t \in T, i \in metals}
    \cup {eq_conc_mass_water(t) : t \in T}
    \cup {eq_conc_mass_acids(t, i) : t \in T, i \in acids}

\* values the property packages give their state variables at construction
DefaultValue == Val(1, 0)

BlockNames == {"fs.translator", "fs.sx_leach"}
\* steady state (one time point) or a horizon of MaxTime + 1 points
TimeSets == {0..0, 0..MaxTime}

NoExc == [type |-> "none", name |-> "", dof |-> 0]

build(T, n) ==
    /\ tpc = "new"
    /\ name' = n
    /\ time' = T
    /\ constraints' = BuiltConstraints(T)
    /\ inVal' = [v \in InVars(T) |-> DefaultValue]
    /\ outVal' = [v \in OutVars(T) |-> DefaultValue]
    /\ tpc' = "idle"
    /\ UNCHANGED <<fixedIn, fixedOut, flags, res, exc, solveDofs, derived>>

(***************************************************************************)
(* degrees_of_freedom(self): unfixed variables that appear in an active     *)
(* equality constraint, minus the number of active equality constraints.   *)
(***************************************************************************)
VarsInConstraints ==
    {<<"out", c.lhs>> : c \in constraints}
    \cup {<<"in", c.rhsVar>> : c \in {d \in constraints : d.rhsKind = "in"}}

FixedVars == {<<"in", v>> : v \in fixedIn} \cup {<<"out", v>> : v \in fixedOut}

degrees_of_freedom ==
    Cardinality(VarsInConstraints \ FixedVars) - Cardinality(constraints)

(***************************************************************************)
(* Sample inputs of initialize_build.                                      *)
(***************************************************************************)
\* upstream sample k: every variable gets a value of its own
UpstreamState(k) ==
    [v \in InVars(time) |->
        IF v[2] = "flow_vol" THEN Val(k + v[1], 2)
        ELSE IF v[3] = "H2O" THEN Val(k + v[1], 5)
        ELSE Val(k + v[1] + CompPos(v[3]), 1)]

GuessState(g) == [v \in OutVars(time) |-> Val(g, -1)]

\* 0 stands for the default state_args=None
StateArgsIn == 0..NumUpstream
StateArgsOut == 0..NumGuess

\* what the caller may have fixed on the block before calling: nothing, an
\* inlet variable, or an outlet variable
CallerFixed ==
    {[in |-> {}, out |-> {}],
     [in |-> {FlowVar(0)}, out |-> {}],
     [in |-> {}, out |-> {FlowVar(0)}],
     [in |-> {}, out |-> {ConcVar(0, "H2O")}]}

(***************************************************************************)
(* initialize_build(), statement by statement.                             *)
(***************************************************************************)
check_optimal_termination(r) == r = "optimal"

\* entry, and flags = self.properties_in.initialize(..., hold_state=True):
\* the unfixed state variables take state_args_in, every state variable is
\* fixed, and flags remembers which ones were fixed already
properties_in_initialize(state_args_in, cf) ==
    /\ tpc \in {"idle", "returned", "raised"}
    /\ LET wasFixed == fixedIn \cup cf.in
       IN /\ flags' = wasFixed
          /\ inVal' = IF state_args_in = 0 THEN inVal
                      ELSE [v \in InVars(time) |->
                               IF v \in wasFixed THEN inVal[v]
                               ELSE UpstreamState(state_args_in)[v]]
          /\ fixedIn' = InVars(time)
    /\ fixedOut' = fixedOut \cup cf.out
    /\ res' = "none"
    /\ exc' = NoExc
    /\ solveDofs' = <<>>
    /\ derived' = IF check_optimal_termination(res)
                  THEN <<[in |-> inVal, out |-> outVal]>> ELSE derived
    /\ tpc' = "properties_out"
    /\ UNCHANGED <<name, time, constraints, outVal>>

\* self.properties_out.initialize(..., state_args=state_args_out)
properties_out_initialize(state_args_out) ==
    /\ tpc = "properties_out"
    /\ outVal' = IF state_args_out = 0 THEN outVal
                 ELSE [v \in OutVars(time) |->
                          IF v \in fixedOut THEN outVal[v]
                          ELSE GuessState(state_args_out)[v]]
    /\ tpc' = "dof_check"
    /\ UNCHANGED <<name, time, constraints, inVal, fixedIn, fixedOut, flags,
                   res, exc, solveDofs, derived>>

\* if degrees_of_freedom(self) != 0:
\* faulty variant: only a positive count is rejected
DofCheckFails_m == degrees_of_freedom > 0
DofCheckFails == degrees_of_freedom # 0

dof_check ==
    /\ tpc = "dof_check"
    /\ IF DofCheckFails
       THEN /\ exc' = [type |-> "Exception", name |-> name, dof |-> degrees_of_freedom]
            /\ tpc' = "raised"
       ELSE /\ exc' = exc
            /\ tpc' = "solve"
    /\ UNCHANGED <<name, time, constraints, inVal, outVal, fixedIn, fixedOut,
                   flags, res, solveDofs, derived>>

\* ---- the local solve: res = opt.solve(self) ----
RhsValue(c) == IF c.rhsKind = "in" THEN inVal[c.rhsVar] ELSE c.rhsVal

Constrains(v) == {c \in constraints : c.lhs = v}

\* values of downstream variable v that satisfy every constraint on it; a
\* fixed variable, or one in no constraint, is not moved by the solver
Feasible(v) ==
    LET on == Constrains(v)
        cand == IF v \in fixedOut \/ on = {} THEN {outVal[v]}
                ELSE {RhsValue(c) : c \in on}
    IN {x \in cand : \A c \in on : x = RhsValue(c)}

IsFeasible == \A v \in DOMAIN outVal : Feasible(v) # {}

Solution == [v \in DOMAIN outVal |-> CHOOSE x \in Feasible(v) : TRUE]

TerminationConditions == {"optimal", "maxIterations", "infeasible"}

\* iterates the solver may leave behind when it stops without converging
Iterates ==
    {outVal} \cup {[v \in DOMAIN outVal |->
                      IF v \in fixedOut THEN outVal[v] ELSE GuessState(g)[v]]
                  : g \in 1..NumGuess}

solve ==
    /\ tpc = "solve"
    /\ \E feasible \in {IsFeasible}, status \in TerminationConditions :
          /\ status = "optimal" => feasible
          /\ status = "infeasible" => ~feasible
          /\ res' = status
          /\ IF status = "optimal"
             THEN outVal' = Solution
             ELSE outVal' \in Iterates
    /\ solveDofs' = Append(solveDofs, degrees_of_freedom)
    /\ tpc' = "release_state"
    /\ UNCHANGED <<name, time, constraints, inVal, fixedIn, fixedOut, flags, exc, derived>>

\* self.properties_in.release_state(flags=flags): unfix what initialize fixed
release_state ==
    /\ tpc = "release_state"
    /\ fixedIn' = fixedIn \cap flags
    /\ tpc' = "check_termination"
    /\ UNCHANGED <<name, time, constraints, inVal, outVal, fixedOut, flags,
                   res, exc, solveDofs, derived>>

\* if not check_optimal_termination(res): raise InitializationError(...)
\* faulty variant: only an infeasible termination is rejected
FailedToInitialize_m == res = "infeasible"
FailedToInitialize == ~check_optimal_termination(res)

check_termination ==
    /\ tpc = "check_termination"
    /\ IF FailedToInitialize
       THEN /\ exc' = [type |-> "InitializationError", name |-> name, dof |-> 0]
            /\ tpc' = "raised"
       ELSE /\ exc' = exc
            /\ tpc' = "returned"
    /\ UNCHANGED <<name, time, constraints, inVal, outVal, fixedIn, fixedOut,
                   flags, res, solveDofs, derived>>

InitT ==
    /\ tpc = "new"
    /\ name = ""
    /\ time = {}
    /\ constraints = {}
    /\ inVal = <<>>
    /\ outVal = <<>>
    /\ fixedIn = {}
    /\ fixedOut = {}
    /\ flags = {}
    /\ res = "none"
    /\ exc = NoExc
    /\ solveDofs = <<>>
    /\ derived = <<>>

(***************************************************************************)
(* The diafiltration driver: main(args), statement by statement.           *)
(***************************************************************************)
MaxFree == 1    \* unfix_dof leaves 0..MaxFree design variables free

\* m.fs.precipitator[...].V.fix(500)
PrecipitatorVolume == 500

Precipitators == {"retentate", "permeate"}

\* the statements of main in program order
\* faulty variant: the precipitator volumes are fixed before unfix_dof
MainOrder_m ==
    <<"parse_args", "DiafiltrationModel", "build_flowsheet", "initialize",
      "fix_retentate_V", "fix_permeate_V", "unfix_dof", "report_statistics",
      "set_R", "solve", "display_co", "display_li", "report_values">>
MainOrder ==
    <<"parse_args", "DiafiltrationModel", "build_flowsheet", "initialize",
      "unfix_dof", "fix_retentate_V", "fix_permeate_V", "report_statistics",
      "set_R", "solve", "display_co", "display_li", "report_values">>

Done == Len(MainOrder) + 1
Exited == Done + 1     \* main was left by an exception

At(stmt) == pc \in 1..Len(MainOrder) /\ MainOrder[pc] = stmt

Ok(stmt) == [stmt |-> stmt, outcome |-> "ok", error |-> NoExc]
Failed(stmt, e) == [stmt |-> stmt, outcome |-> "raise", error |-> e]

Error(type, origin) == [type |-> type, name |-> origin, dof |-> 0]

\* main has no try/except: an exception of a statement leaves main as it is
\* faulty variant: an error of initialize is swallowed and main goes on
OnError_m(stmt, e) ==
    IF stmt = "initialize" THEN [pc |-> pc + 1, raised |-> NoExc]
    ELSE [pc |-> Exited, raised |-> e]
OnError(stmt, e) == [pc |-> Exited, raised |-> e]

Return(stmt) ==
    /\ pc' = pc + 1
    /\ trace' = Append(trace, Ok(stmt))
    /\ raised' = raised

Raise(stmt, e) ==
    /\ pc' = OnError(stmt, e).pc
    /\ raised' = OnError(stmt, e).raised
    /\ trace' = Append(trace, Failed(stmt, e))

\* ---- int(args[k]) on an argument given as its characters ----
DigitValue(c) ==
    CASE c = "0" -> 0 [] c = "1" -> 1 [] c = "2" -> 2 [] c = "3" -> 3
      [] c = "4" -> 4 [] c = "5" -> 5 [] c = "6" -> 6 [] c = "7" -> 7
      [] c = "8" -> 8 [] c = "9" -> 9 [] OTHER -> -1

IsDigits(s) == Len(s) > 0 /\ \A k \in 1..Len(s) : DigitValue(s[k]) >= 0

RECURSIVE DigitsValue(_)
DigitsValue(s) ==
    IF Len(s) = 0 THEN 0
    ELSE 10 * DigitsValue(SubSeq(s, 1, Len(s) - 1)) + DigitValue(s[Len(s)])

HasSign(s) == Len(s) > 0 /\ s[1] \in {"-", "+"}
Unsigned(s) == IF HasSign(s) THEN Tail(s) ELSE s

IsInt(s) == IsDigits(Unsigned(s))
int(s) ==
    IF HasSign(s) /\ s[1] = "-" THEN 0 - DigitsValue(Unsigned(s))
    ELSE DigitsValue(Unsigned(s))

MixStyles == {"recycle", "feed-only"}
IntArgs == {<<"1">>, <<"2">>, <<"1", "0">>, <<"-", "1">>, <<"x">>}
Prog == "solve_diafiltration.py"
ArgvSamples ==
    {<<Prog>>}
    \cup {<<Prog, x>> : x \in MixStyles}
    \cup {<<Prog, x, s>> : x \in MixStyles, s \in {<<"2">>}}
    \cup {<<Prog, x, s, t>> : x \in MixStyles, s \in IntArgs, t \in IntArgs}

NoModel ==
    [built |-> FALSE, free |-> 0,
     Vfixed |-> [p \in Precipitators |-> FALSE],
     V |-> [p \in Precipitators |-> 0], R |-> 0]

\* degrees_of_freedom of the assembled model: the free design variables plus
\* the precipitator volumes that are not fixed
degrees_of_freedom_m ==
    m.free + Cardinality({p \in Precipitators : ~m.Vfixed[p]})

\* lines 20-23
parse_args(av) ==
    /\ At("parse_args")
    /\ argv' = av
    /\ LET args == Tail(av)
       IN IF Len(args) < 1
          THEN /\ Raise("parse_args", Error("IndexError", "main"))
               /\ UNCHANGED <<mix_style, num_s, num_t>>
          ELSE /\ mix_style' = args[1]
               /\ IF Len(args) < 2
                  THEN /\ Raise("parse_args", Error("IndexError", "main"))
                       /\ UNCHANGED <<num_s, num_t>>
                  ELSE IF ~IsInt(args[2])
                  THEN /\ Raise("parse_args", Error("ValueError", "main"))
                       /\ UNCHANGED <<num_s, num_t>>
                  ELSE /\ num_s' = int(args[2])
                       /\ IF Len(args) < 3
                          THEN /\ Raise("parse_args", Error("IndexError", "main"))
                               /\ UNCHANGED num_t
                          ELSE IF ~IsInt(args[3])
                          THEN /\ Raise("parse_args", Error("ValueError", "main"))
                               /\ UNCHANGED num_t
                          ELSE /\ num_t' = int(args[3])
                               /\ Return("parse_args")
    /\ UNCHANGED <<m, result>>

\* df = DiafiltrationModel(NS=..., NT=..., ...): may reject its arguments
DiafiltrationModel(ok) ==
    /\ At("DiafiltrationModel")
    /\ IF ok THEN Return("DiafiltrationModel")
       ELSE Raise("DiafiltrationModel", Error("ConfigurationError", "DiafiltrationModel"))
    /\ UNCHANGED <<argv, mix_style, num_s, num_t, m, result>>

\* m = df.build_flowsheet(mixing=mixing): allocates the model, fixes nothing
build_flowsheet(ok, f) ==
    /\ At("build_flowsheet")
    /\ IF ok
       THEN /\ m' = [NoModel EXCEPT !.built = TRUE, !.free = f]
            /\ Return("build_flowsheet")
       ELSE /\ m' = m
            /\ Raise("build_flowsheet", Error("ConfigurationError", "build_flowsheet"))
    /\ UNCHANGED <<argv, mix_style, num_s, num_t, result>>

\* df.initialize(m, mixing=mixing, precipitate=prec): fixes the free variables
\* (and possibly the precipitator volumes) for the stage-wise initialization
initialize(ok, vf) ==
    /\ At("initialize")
    /\ IF ok
       THEN /\ m' = [m EXCEPT !.free = 0, !.Vfixed = vf]
            /\ Return("initialize")
       ELSE /\ m' = m
            /\ Raise("initialize", Error("InitializationError", "initialize"))
    /\ UNCHANGED <<argv, mix_style, num_s, num_t, result>>

\* df.unfix_dof(m, mixing=mixing, precipitate=prec): releases design variables
\* and may release precipitator volumes
unfix_dof(f, vf) ==
    /\ At("unfix_dof")
    /\ \A p \in Precipitators : vf[p] => m.Vfixed[p]
    /\ m' = [m EXCEPT !.free = f, !.Vfixed = vf]
    /\ Return("unfix_dof")
    /\ UNCHANGED <<argv, mix_style, num_s, num_t, result>>

\* m.fs.precipitator[p].V.fix(500)
FixV(stmt, p) ==
    /\ At(stmt)
    /\ m' = [m EXCEPT !.Vfixed[p] = TRUE, !.V[p] = PrecipitatorVolume]
    /\ Return(stmt)
    /\ UNCHANGED <<argv, mix_style, num_s, num_t, result>>

fix_retentate_V == FixV("fix_retentate_V", "retentate")
fix_permeate_V == FixV("fix_permeate_V", "permeate")

\* report_statistics(m): prints, changes nothing, checks nothing
report_statistics ==
    /\ At("report_statistics")
    /\ Return("report_statistics")
    /\ UNCHANGED <<argv, mix_style, num_s, num_t, m, result>>

\* m.R = 0.8 (8 tenths); solver = SolverFactory("ipopt")
RTenths == 8

set_R ==
    /\ At("set_R")
    /\ m' = [m EXCEPT !.R = RTenths]
    /\ Return("set_R")
    /\ UNCHANGED <<argv, mix_style, num_s, num_t, result>>

\* result = solver.solve(m, tee=True): a fixed variable keeps its value
main_solve(status, v) ==
    /\ At("solve")
    /\ result' = status
    /\ m' = [m EXCEPT !.V = [p \in Precipitators |->
                                IF m.Vfixed[p] THEN m.V[p] ELSE v[p]]]
    /\ Return("solve")
    /\ UNCHANGED <<argv, mix_style, num_s, num_t>>

\* m.prec_perc_co.display(); m.prec_perc_li.display(); utils.report_values(m)
Display(stmt) ==
    /\ At(stmt)
    /\ Return(stmt)
    /\ UNCHANGED <<argv, mix_style, num_s, num_t, m, result>>

display_co == Display("display_co")
display_li == Display("display_li")
report_values == Display("report_values")

InitD ==
    /\ pc = 1
    /\ argv = <<>>
    /\ mix_style = ""
    /\ num_s = 0
    /\ num_t = 0
    /\ m = NoModel
    /\ result = "none"
    /\ raised = NoExc
    /\ trace = <<>>

Init == InitT /\ InitD

Next ==
    \/ \E T \in TimeSets, n \in BlockNames : build(T, n) /\ UNCHANGED dvars
    \/ \E a \in StateArgsIn, cf \in CallerFixed :
          properties_in_initialize(a, cf) /\ UNCHANGED dvars
    \/ \E g \in StateArgsOut : properties_out_initialize(g) /\ UNCHANGED dvars
    \/ dof_check /\ UNCHANGED dvars
    \/ solve /\ UNCHANGED dvars
    \/ release_state /\ UNCHANGED dvars
    \/ check_termination /\ UNCHANGED dvars

Spec == Init /\ [][Next]_vars

BoolMaps == [Precipitators -> BOOLEAN]

NextMain ==
    \/ \E av \in ArgvSamples : parse_args(av) /\ UNCHANGED tvars
    \/ \E ok \in BOOLEAN : DiafiltrationModel(ok) /\ UNCHANGED tvars
    \/ \E ok \in BOOLEAN, f \in 0..MaxFree : build_flowsheet(ok, f) /\ UNCHANGED tvars
    \/ \E ok \in BOOLEAN, vf \in BoolMaps : initialize(ok, vf) /\ UNCHANGED tvars
    \/ \E f \in 0..MaxFree, vf \in BoolMaps : unfix_dof(f, vf) /\ UNCHANGED tvars
    \/ fix_retentate_V /\ UNCHANGED tvars
    \/ fix_permeate_V /\ UNCHANGED tvars
    \/ report_statistics /\ UNCHANGED tvars
    \/ set_R /\ UNCHANGED tvars
    \/ \E status \in TerminationConditions,
          v \in [Precipitators -> {0, PrecipitatorVolume}] :
          main_solve(status, v) /\ UNCHANGED tvars
    \/ display_co /\ UNCHANGED tvars
    \/ display_li /\ UNCHANGED tvars
    \/ report_values /\ UNCHANGED tvars

SpecMain == Init /\ [][NextMain]_vars

(***************************************************************************)
(* Properties of Translator_SX_leaching (checked under Spec).              *)
(***************************************************************************)
ClaimMetals == {"Al", "Ca", "Fe", "Sc", "Y", "La", "Ce", "Pr", "Nd", "Sm", "Gd", "Dy"}
ClaimAcids == {"H", "HSO4", "SO4"}
AfterSolve == tpc \in {"release_state", "check_termination", "returned", "raised"}
                /\ Len(solveDofs) > 0

\* C1: the local solver is only invoked with degrees_of_freedom(block) = 0; a
\* nonzero count after the two state blocks are initialized raises an error
\* that carries the block name and the exact count, and then the solver is
\* not invoked for the block.
C1_SolveOnlyAtZeroDof ==
    /\ tpc = "solve" => degrees_of_freedom = 0
    /\ \A k \in 1..Len(solveDofs) : solveDofs[k] = 0
    /\ exc.type = "Exception" =>
          /\ tpc = "raised"
          /\ exc.name = name
          /\ exc.dof = degrees_of_freedom
          /\ exc.dof # 0
          /\ solveDofs = <<>>

\* a call that ends in the degrees-of-freedom error, after an earlier call of
\* the same block did reach the solver
C1_Witness ==
    /\ tpc = "raised"
    /\ exc.type = "Exception"
    /\ exc.dof = -1
    /\ Len(derived) > 0

\* C2: after a local solve whose termination is not optimal, initialize_build
\* raises InitializationError naming the block; it never returns normally and
\* never solves a second time.
C2_NonOptimalRaises ==
    /\ tpc = "returned" => res = "optimal"
    /\ (tpc = "raised" /\ res \notin {"none", "optimal"}) =>
          exc = [type |-> "InitializationError", name |-> name, dof |-> 0]
    /\ Len(solveDofs) <= 1

C2_Witness ==
    /\ tpc = "raised"
    /\ res = "maxIterations"
    /\ exc.type = "InitializationError"
    /\ exc.name = "fs.sx_leach"

\* C5: once the constraints of build hold (an optimal solve), at every time
\* point downstream flow_vol equals upstream flow_vol, every metal
\* concentration equals its upstream value, every acid concentration is 1e-10
\* and the H2O concentration is 1e6 whatever the upstream water value.
C5_DownstreamDetermined ==
    (AfterSolve /\ res = "optimal") =>
        \A t \in time :
            /\ outVal[<<t, "flow_vol", "-">>] = inVal[<<t, "flow_vol", "-">>]
            /\ \A i \in ClaimMetals :
                  outVal[<<t, "conc_mass_comp", i>>] = inVal[<<t, "conc_mass_comp", i>>]
            /\ \A i \in ClaimAcids :
                  outVal[<<t, "conc_mass_comp", i>>] = [m |-> 1, e |-> -10]
            /\ outVal[<<t, "conc_mass_comp", "H2O">>] = [m |-> 1, e |-> 6]

\* two time points, an upstream water value that is not the reference, and
\* metals that carry values of their own
C5_Witness ==
    /\ tpc = "returned"
    /\ time = {0, 1}
    /\ inVal[<<1, "conc_mass_comp", "H2O">>] = [m |-> 2, e |-> 5]
    /\ inVal[<<0, "conc_mass_comp", "Dy">>] = [m |-> 13, e |-> 1]
    /\ outVal[<<0, "conc_mass_comp", "Dy">>] = [m |-> 13, e |-> 1]
    /\ outVal[<<1, "conc_mass_comp", "H2O">>] = [m |-> 1, e |-> 6]

\* C6: when build has returned, per time point it has added 17 constraints, each on exactly one
\* downstream variable, no downstream variable carries two constraints, the
\* index sets of the metal, acid and water rules are pairwise disjoint, and
\* every other variable of a constraint is an upstream variable.
IdxOf(rule) == {c.idx : c \in {d \in constraints : d.rule = rule}}

C6_OneConstraintPerVariable ==
    tpc = "idle" =>
        /\ \A t \in time : Cardinality({c \in constraints : c.t = t}) = 17
        /\ \A c \in constraints : c.lhs \in OutVars(time)
        /\ \A v \in OutVars(time) : Cardinality({c \in constraints : c.lhs = v}) = 1
        /\ \A t \in time : Cardinality({v \in OutVars(time) : v[1] = t}) = 17
        /\ IdxOf("eq_conc_mass_metals") \cap IdxOf("eq_conc_mass_acids") = {}
        /\ "H2O" \notin IdxOf("eq_conc_mass_metals") \cup IdxOf("eq_conc_mass_acids")
        /\ \A c \in constraints : c.rhsKind = "in" => c.rhsVar \in InVars(time)

C6_Witness ==
    /\ tpc = "idle"
    /\ time = {0, 1}
    /\ Cardinality(constraints) = 34

\* C9: an optimal solve from the upstream state of the previous optimal solve
\* gives the downstream state that one gave, whatever the downstream values
\* were before it.
C9_Idempotent ==
    (AfterSolve /\ res = "optimal" /\ Len(derived) = 1 /\ derived[1].in = inVal) =>
        derived[1].out = outVal

\* a second derivation from the upstream state of the first
C9_Witness ==
    /\ tpc = "returned"
    /\ Len(derived) = 1
    /\ derived[1].in = inVal
    /\ inVal = UpstreamState(1)

\* C10: whenever initialize_build has ended, every inlet variable that
\* properties_in.initialize fixed has been released again.
C10_HeldStateReleased ==
    tpc \in {"returned", "raised"} => fixedIn \subseteq flags

(***************************************************************************)
(* Properties of the driver main (checked under SpecMain).                 *)
(***************************************************************************)
Ran(stmt) == \E k \in 1..Len(trace) : trace[k].stmt = stmt
Count(stmt) == Cardinality({k \in 1..Len(trace) : trace[k].stmt = stmt})
Pos(stmt) == CHOOSE k \in 1..Len(trace) : trace[k].stmt = stmt
Before(a, b) == Ran(b) => (Ran(a) /\ Pos(a) < Pos(b))

\* C3: the global solver is only invoked on a model whose degree-of-freedom
\* count is zero.
C3_SolveOnlyAtZeroDof ==
    Ran("solve") => degrees_of_freedom_m = 0

\* C4: after a non-optimal global solve main does not display the recovery
\* metrics, print the stream report and return normally.
C4_NonOptimalSurfaced ==
    result \notin {"none", "optimal"} =>
        /\ ~Ran("display_co")
        /\ ~Ran("display_li")
        /\ ~Ran("report_values")
        /\ pc # Done

\* C7: build_flowsheet, initialize, unfix_dof, the two precipitator volume
\* fixes, the global solve and the reporting run in this order, each at most
\* once; when the solver is about to run, and afterwards, both precipitator
\* volumes are fixed at 500.
C7_StepOrder ==
    /\ \A k \in 1..Len(trace) : Count(trace[k].stmt) = 1
    /\ Before("build_flowsheet", "initialize")
    /\ Before("initialize", "unfix_dof")
    /\ Before("unfix_dof", "fix_retentate_V")
    /\ Before("unfix_dof", "fix_permeate_V")
    /\ Before("fix_retentate_V", "solve")
    /\ Before("fix_permeate_V", "solve")
    /\ Before("solve", "display_co")
    /\ Before("solve", "display_li")
    /\ Before("solve", "report_values")
    /\ (At("solve") \/ Ran("solve")) =>
          \A p \in {"retentate", "permeate"} : m.Vfixed[p] /\ m.V[p] = 500

C7_Witness ==
    /\ pc = Done
    /\ Len(trace) = 13
    /\ result = "optimal"
    /\ m.V = [p \in Precipitators |-> 500]

\* C8: an error of build_flowsheet or of initialize leaves main unchanged and
\* is the last thing main does: no initializer runs after a build error, and
\* no unfix_dof, volume fix, solve or report after a failed initialize.
C8_ErrorsPropagate ==
    \A k \in 1..Len(trace) :
        (trace[k].outcome = "raise"
           /\ trace[k].stmt \in {"DiafiltrationModel", "build_flowsheet", "initialize"}) =>
            /\ k = Len(trace)
            /\ pc = Exited
            /\ raised = trace[k].error
            /\ raised.type # "none"

C8_Witness ==
    /\ pc = Exited
    /\ trace[Len(trace)].stmt = "initialize"
    /\ raised.type = "InitializationError"
    /\ Ran("build_flowsheet")

====
